---- MODULE Spec2Model ----
(***************************************************************************)
(* Model of the video-to-image frame extractor: the VideoExtractor class   *)
(* (src/src/extractor.py) and the command-line batch driver (src/run.py).  *)
(*                                                                         *)
(* Times are exact rationals: an interval is counted in half seconds, a    *)
(* frame rate in whole frames per second and a timestamp in whole seconds, *)
(* so that every float product and quotient of the code is exact and       *)
(* int() is a truncation toward zero of an exact quotient.                 *)
(*                                                                         *)
(* The decoder library and the file system are the environment: a video    *)
(* is described by what the decoder reports and decodes for it.            *)
(***************************************************************************)
EXTENDS Integers, Sequences, FiniteSets, TLC

\* ------------------------------------------------------------------ bounds

\* Largest number of videos on one command line.
MaxBatch == 2

\* Largest frame count of the small videos (the 300-frame example is extra).
MaxFrames == 3

\* ------------------------------------------------------- integer arithmetic

Abs(x) == IF x < 0 THEN -x ELSE x

Max(a, b) == IF a >= b THEN a ELSE b

Min(a, b) == IF a <= b THEN a ELSE b

\* int(a / b) of Python for an exact quotient: truncation toward zero.
TruncDiv(a, b) ==
    LET q == Abs(a) \div Abs(b)
    IN  IF (a < 0) # (b < 0) THEN -q ELSE q

\* a // b of Python: the floor of the quotient, for either sign of b.
FloorDiv(a, b) ==
    LET q == TruncDiv(a, b)
    IN  IF q * b # a /\ ((a < 0) # (b < 0)) THEN q - 1 ELSE q

\* -------------------------------------------------------------- text values

DigitChars == <<"0", "1", "2", "3", "4", "5", "6", "7", "8", "9">>

DigitVal(c) == (CHOOSE k \in 1..10 : DigitChars[k] = c) - 1

RECURSIVE Digits(_)
\* The decimal digits of n >= 0, most significant first.
Digits(n) ==
    IF n < 10 THEN <<DigitChars[n + 1]>>
    ELSE Digits(n \div 10) \o <<DigitChars[(n % 10) + 1]>>

\* str(n)
Str(n) == IF n < 0 THEN <<"-">> \o Digits(-n) ELSE Digits(n)

RECURSIVE Zeros(_)
Zeros(k) == IF k <= 0 THEN <<>> ELSE <<"0">> \o Zeros(k - 1)

\* f"{index:0{padding}d}": sign first, then zeros up to the width, never cut.
ZeroPad(index, padding) ==
    LET d == Digits(Abs(index))
        s == IF index < 0 THEN <<"-">> ELSE <<>>
    IN  s \o Zeros(padding - Len(s) - Len(d)) \o d

RECURSIVE ToNumber(_)
\* float(component) for a component made of decimal digits.
ToNumber(ds) ==
    IF Len(ds) = 0 THEN 0
    ELSE 10 * ToNumber(SubSeq(ds, 1, Len(ds) - 1)) + DigitVal(ds[Len(ds)])

RECURSIVE JoinDash(_)
\* timestamp.replace(':', '-') on the colon-separated components.
JoinDash(parts) ==
    IF Len(parts) = 0 THEN <<>>
    ELSE IF Len(parts) = 1 THEN parts[1]
    ELSE parts[1] \o <<"-">> \o JoinDash(Tail(parts))

FORMAT_EXTENSIONS == [jpg |-> ".jpg", jpeg |-> ".jpg", png |-> ".png"]

\* ------------------------------------------------- VideoExtractor helpers

\* _format_filename with the padding forgotten: the index as str() gives it.
FormatFilenameUnpadded(index, total, output_format) ==
    <<"frame_">> \o Str(index) \o <<FORMAT_EXTENSIONS[output_format]>>

\* VideoExtractor._format_filename: "frame_", the index padded with zeros to
\* len(str(total)) characters, the extension of the output format.
FormatFilename(index, total, output_format) ==
    LET padding == Len(Str(total))
        ext == FORMAT_EXTENSIONS[output_format]
    IN  <<"frame_">> \o ZeroPad(index, padding) \o <<ext>>

\* The interval step with the raise to 1 forgotten.
IntervalFramesUnclamped(fps, interval) == TruncDiv(fps * interval, 2)

\* extract_by_interval: interval_frames = int(fps * interval_seconds), raised
\* to 1 when below it. interval is in half seconds.
IntervalFrames(fps, interval) ==
    LET interval_frames == TruncDiv(fps * interval, 2)
    IN  IF interval_frames < 1 THEN 1 ELSE interval_frames

\* The count step with max(1, ...) forgotten.
CountIntervalUnclamped(total_frames, count) == FloorDiv(total_frames, count)

\* extract_by_count: interval = max(1, total_frames // count)
CountInterval(total_frames, count) == Max(1, FloorDiv(total_frames, count))

\* extract_by_count: frame_position = min(i * interval, total_frames - 1)
CountFramePosition(i, interval, total_frames) ==
    Min(i * interval, total_frames - 1)

\* _get_duration, as the pair (frame_count, fps) of the quotient; 0 when fps
\* is not positive.
DurationIsZero(v) == ~(v.fps > 0) \/ v.frame_count = 0

\* process_video: estimated_frames = int(duration / args.interval), with
\* duration = frame_count / fps and the interval in half seconds.
EstimatedFrames(v, interval) ==
    IF DurationIsZero(v) THEN 0
    ELSE TruncDiv(2 * v.frame_count, v.fps * interval)

\* process_video: interval_frames = max(1, total_video_frames // estimated_frames)
\* (estimated_frames # 0; the division by zero is raised before this is used).
CliIntervalFrames(v, interval) ==
    Max(1, FloorDiv(v.frame_count, EstimatedFrames(v, interval)))

\* cap.read() after cap.set(CAP_PROP_POS_FRAMES, position): a frame is decoded
\* exactly at the positions the video has decodable frames for.
ReadOK(v, position) == position >= 0 /\ position < v.readable

\* ------------------------------------------------------------- timestamps

\* A timestamp string is the sequence of its colon-separated components, each
\* a sequence of digit characters: "00:00:05" is <<"00", "00", "05">>.
HasColon(parts) == Len(parts) >= 2

\* The seconds of a well-formed H:M:S, M:S or plain-seconds string.
TimestampSeconds(parts) ==
    IF Len(parts) = 3
    THEN ToNumber(parts[1]) * 3600 + ToNumber(parts[2]) * 60 + ToNumber(parts[3])
    ELSE IF Len(parts) = 2
    THEN ToNumber(parts[1]) * 60 + ToNumber(parts[2])
    ELSE ToNumber(parts[1])

\* run.parse_timestamp: with a colon, three or two components are converted;
\* any other number of them falls through to float(value), which raises
\* ValueError for a string that holds a colon.
ParseTimestamp(parts) ==
    IF HasColon(parts) /\ Len(parts) \notin {2, 3}
    THEN [ok |-> FALSE, seconds |-> 0]
    ELSE [ok |-> TRUE, seconds |-> TimestampSeconds(parts)]

\* extract_at_timestamp: a string with a colon must have three or two
\* components; anything else (a float, a plain string) goes through float().
TargetTime(timestamp) ==
    IF timestamp.isStr /\ HasColon(timestamp.parts)
    THEN IF Len(timestamp.parts) \in {2, 3}
         THEN [ok |-> TRUE, seconds |-> TimestampSeconds(timestamp.parts)]
         ELSE [ok |-> FALSE, seconds |-> 0]
    ELSE [ok |-> TRUE,
          seconds |-> IF timestamp.isStr THEN TimestampSeconds(timestamp.parts)
                      ELSE timestamp.seconds]

\* extract_at_timestamp: frame_position = int(target_time * fps)
TimestampFramePosition(seconds, fps) == seconds * fps

\* extract_at_timestamp: f"frame_at_{timestamp.replace(':', '-')}{ext}"
TimestampFilename(parts, output_format) ==
    <<"frame_at_">> \o JoinDash(parts) \o <<FORMAT_EXTENSIONS[output_format]>>

\* ------------------------------------------------------------------ inputs

\* --interval values, in half seconds: negative, zero, below one frame period
\* of a slow video, and one to four half seconds.
Intervals == {-1, 0, 1, 2, 3, 4}

\* --count values.
Counts == {-1, 0, 1, 2, 5, 10}

\* --timestamp strings: "0", "1", "0:2", "00:00:05" and the malformed "1:2:3:4".
Timestamps ==
    { << <<"0">> >>,
      << <<"1">> >>,
      << <<"0">>, <<"2">> >>,
      << <<"0", "0">>, <<"0", "0">>, <<"0", "5">> >>,
      << <<"1">>, <<"2">>, <<"3">>, <<"4">> >> }

\* The argparse namespace: exactly one of interval, count and timestamp is
\* given (mode names it; the other two are None), plus --format and --info.
ArgSets ==
    { [mode |-> "interval", interval |-> x, count |-> 0, timestamp |-> <<>>,
       format |-> f, info |-> b] : x \in Intervals, f \in {"jpg", "png"}, b \in BOOLEAN }
    \cup
    { [mode |-> "count", interval |-> 0, count |-> c, timestamp |-> <<>>,
       format |-> f, info |-> b] : c \in Counts, f \in {"jpg", "png"}, b \in BOOLEAN }
    \cup
    { [mode |-> "timestamp", interval |-> 0, count |-> 0, timestamp |-> t,
       format |-> f, info |-> b] : t \in Timestamps, f \in {"jpg", "png"}, b \in BOOLEAN }

\* The 10-second, 30 fps synthetic video: 300 frames, all of them decodable.
ExampleVideo == [kind |-> "ok", frame_count |-> 300, readable |-> 300, fps |-> 30]

\* Frame rates of the small videos; 0 is what the decoder reports when it
\* does not know the rate.
FpsValues == {0, 1, 2}

\* What the environment holds for one video path when it is processed: no
\* file (any more), a file the decoder cannot open, or a video with its
\* reported frame count and rate and the number of frames that decode (all
\* of the reported ones, or one fewer).
VideoProfiles ==
    { [kind |-> "ok", frame_count |-> x[1], readable |-> x[2], fps |-> x[3]] :
        x \in { y \in (0..MaxFrames) \X (0..MaxFrames) \X FpsValues :
                  y[2] \in {y[1], y[1] - 1} } }
    \cup
    { [kind |-> k, frame_count |-> 0, readable |-> 0, fps |-> 0] :
        k \in {"missing", "corrupt"} }
    \cup
    { ExampleVideo }

NoVideo == [kind |-> "none", frame_count |-> 0, readable |-> 0, fps |-> 0]

\* ------------------------------------------------------------------- state

VARIABLES
    driver,          \* "cli": run.main; "lib": a direct caller of VideoExtractor
    args,            \* the parsed arguments (the method's argument for "lib")
    nvideos,         \* len(args.videos)
    missing,         \* the videos that do not exist when main starts
    pc,              \* the statement the program is at
    video_index,     \* main's loop variable i
    invoked,         \* the videos process_video was called for, in order
    results,         \* main's results list: truthiness and exception per video
    cur,             \* the environment's profile of the video being processed
    timestamp_arg,   \* the value extract_at_timestamp is called with
    openCaps,        \* the videos whose decoder context is open
    openCount,       \* _open_video calls that succeeded for the current video
    interval_frames, \* the loop's step
    frame_position,  \* the loop's seek position
    frame_index,     \* the loop's file index
    loop_i,          \* extract_by_count's loop variable
    extracted,       \* the files written for the current video
    lastSeek,        \* the position of the last cap.set, <<>> when none yet
    outcome,         \* how the operation on the current video ended
    exitCode,        \* sys.exit's status, -1 while running
    listed           \* the videos main listed as not found

vars ==
    <<driver, args, nvideos, missing, pc, video_index, invoked, results, cur,
      timestamp_arg, openCaps, openCount, interval_frames, frame_position,
      frame_index, loop_i, extracted, lastSeek, outcome, exitCode, listed>>

configVars == <<driver, args, nvideos, missing>>

mainVars == <<video_index, invoked, results, exitCode, listed>>

loopVars == <<interval_frames, frame_position, frame_index, loop_i>>

Return(truthy) == [kind |-> "return", truthy |-> truthy, exc |-> ""]

Raise(exc) == [kind |-> "raise", truthy |-> FALSE, exc |-> exc]

NoOutcome == [kind |-> "none", truthy |-> FALSE, exc |-> ""]

NoTimestamp == [isStr |-> FALSE, parts |-> <<>>, seconds |-> 0]

Init ==
    /\ driver \in {"cli", "lib"}
    /\ args \in ArgSets
    /\ nvideos \in 1..MaxBatch
    /\ missing \in SUBSET (1..nvideos)
    /\ driver = "lib" => nvideos = 1 /\ missing = {}
    /\ pc = IF driver = "cli" THEN "parse_args" ELSE "lib_call"
    /\ video_index = 1
    /\ invoked = <<>>
    /\ results = <<>>
    /\ cur = NoVideo
    /\ timestamp_arg = NoTimestamp
    /\ openCaps = {}
    /\ openCount = 0
    /\ interval_frames = 0
    /\ frame_position = 0
    /\ frame_index = 0
    /\ loop_i = 0
    /\ extracted = <<>>
    /\ lastSeek = <<>>
    /\ outcome = NoOutcome
    /\ exitCode = -1
    /\ listed = {}

\* --------------------------------------------------------- run.py: main

\* main, parser.parse_args(): --timestamp goes through parse_timestamp; a
\* ValueError there makes argparse end the process with status 2.
ParseArgs ==
    /\ pc = "parse_args"
    /\ LET parsed == ParseTimestamp(args.timestamp)
       IN  IF args.mode = "timestamp" /\ ~parsed.ok
           THEN /\ exitCode' = 2
                /\ pc' = "exit"
                /\ UNCHANGED timestamp_arg
           ELSE /\ pc' = "main"
                /\ timestamp_arg' =
                     IF args.mode = "timestamp"
                     THEN [isStr |-> FALSE, parts |-> <<>>, seconds |-> parsed.seconds]
                     ELSE NoTimestamp
                /\ UNCHANGED exitCode
    /\ UNCHANGED <<configVars, video_index, invoked, results, listed, cur,
                   openCaps, openCount, loopVars, extracted, lastSeek, outcome>>

\* main: the list of missing videos; when it is not empty they are listed
\* and the process exits with status 1 before the loop.
CheckMissing ==
    /\ pc = "main"
    /\ IF missing # {}
       THEN /\ listed' = missing
            /\ exitCode' = 1
            /\ pc' = "exit"
       ELSE /\ pc' = "loop"
            /\ UNCHANGED <<listed, exitCode>>
    /\ UNCHANGED <<configVars, video_index, invoked, results, cur, timestamp_arg,
                   openCaps, openCount, loopVars, extracted, lastSeek, outcome>>

\* main's loop body up to the strategy: process_video builds the extractor
\* (FileNotFoundError when the file is gone) and picks the operation from the
\* arguments; with none of them truthy it returns False.
ProcessVideo ==
    /\ pc = "loop"
    /\ video_index <= nvideos
    /\ invoked' = Append(invoked, video_index)
    /\ \E v \in VideoProfiles :
         /\ cur' = v
         /\ IF v.kind = "missing"
            THEN outcome' = Raise("FileNotFoundError") /\ pc' = "returned"
            ELSE IF args.info
            THEN outcome' = NoOutcome /\ pc' = "get_video_info"
            ELSE IF args.mode = "timestamp"
            THEN outcome' = NoOutcome /\ pc' = "extract_at_timestamp"
            ELSE IF args.mode = "interval" /\ args.interval # 0
            THEN outcome' = NoOutcome /\ pc' = "cli_interval"
            ELSE IF args.mode = "count" /\ args.count # 0
            THEN outcome' = NoOutcome /\ pc' = "extract_by_count"
            ELSE outcome' = Return(FALSE) /\ pc' = "returned"
    /\ UNCHANGED <<configVars, video_index, results, exitCode, listed,
                   timestamp_arg, openCaps, openCount, loopVars, extracted,
                   lastSeek>>

\* process_video's return or except clause, and main's results.append: an
\* exception becomes False, a returned value is kept as it is. The locals of
\* the call are gone afterwards.
ProcessVideoReturn ==
    /\ pc = "returned"
    /\ driver = "cli"
    /\ results' = Append(results, [ok |-> outcome.truthy, err |-> outcome.exc])
    /\ video_index' = video_index + 1
    /\ pc' = "loop"
    /\ cur' = NoVideo
    /\ openCount' = 0
    /\ interval_frames' = 0
    /\ frame_position' = 0
    /\ frame_index' = 0
    /\ loop_i' = 0
    /\ extracted' = <<>>
    /\ lastSeek' = <<>>
    /\ outcome' = NoOutcome
    /\ UNCHANGED <<configVars, invoked, exitCode, listed, timestamp_arg, openCaps>>

\* main after the loop: status 0 when all(results), else 1.
MainExit ==
    /\ pc = "loop"
    /\ video_index > nvideos
    /\ exitCode' = IF \A k \in 1..Len(results) : results[k].ok THEN 0 ELSE 1
    /\ pc' = "exit"
    /\ UNCHANGED <<configVars, video_index, invoked, results, listed, cur,
                   timestamp_arg, openCaps, openCount, loopVars, extracted,
                   lastSeek, outcome>>

\* A direct caller of the class: builds a VideoExtractor and calls one of its
\* methods with the argument (a timestamp is passed as the string it is).
LibCall ==
    /\ pc = "lib_call"
    /\ \E v \in VideoProfiles :
         /\ cur' = v
         /\ IF v.kind = "missing"
            THEN outcome' = Raise("FileNotFoundError") /\ pc' = "returned"
            ELSE /\ outcome' = NoOutcome
                 /\ pc' = IF args.info THEN "get_video_info"
                          ELSE IF args.mode = "timestamp" THEN "extract_at_timestamp"
                          ELSE IF args.mode = "interval" THEN "extract_by_interval"
                          ELSE "extract_by_count"
    /\ timestamp_arg' =
         IF args.mode = "timestamp"
         THEN [isStr |-> TRUE, parts |-> args.timestamp, seconds |-> 0]
         ELSE NoTimestamp
    /\ UNCHANGED <<configVars, mainVars, openCaps, openCount, loopVars,
                   extracted, lastSeek>>

\* ------------------------------------------------ extractor.py: operations

\* A file record of the current video: the file index, the source position
\* it was read from, the total the name was padded for, and the name.
File(index, position, total, name) ==
    [index |-> index, position |-> position, total |-> total, name |-> name]

\* get_video_info: opens the video (ValueError when it cannot be opened),
\* reads the properties and releases it.
GetVideoInfo ==
    /\ pc = "get_video_info"
    /\ IF cur.kind = "corrupt"
       THEN outcome' = Raise("ValueError") /\ UNCHANGED openCount
       ELSE outcome' = Return(TRUE) /\ openCount' = openCount + 1
    /\ pc' = "returned"
    /\ UNCHANGED <<configVars, mainVars, cur, timestamp_arg, openCaps, loopVars,
                   extracted, lastSeek>>

\* extract_at_timestamp: open, convert the timestamp, seek, read, build the
\* path with timestamp.replace (a str method), write, release. Each raise
\* leaves the method at once; release is the statement before the return.
ExtractAtTimestamp ==
    /\ pc = "extract_at_timestamp"
    /\ pc' = "returned"
    /\ IF cur.kind = "corrupt"
       THEN /\ outcome' = Raise("ValueError")
            /\ UNCHANGED <<openCaps, openCount, frame_position, extracted, lastSeek>>
       ELSE /\ openCount' = openCount + 1
            /\ LET target == TargetTime(timestamp_arg)
                   position == TimestampFramePosition(target.seconds, cur.fps)
               IN  IF ~target.ok
                   THEN /\ outcome' = Raise("ValueError")
                        /\ openCaps' = openCaps \cup {video_index}
                        /\ UNCHANGED <<frame_position, extracted, lastSeek>>
                   ELSE /\ frame_position' = position
                        /\ lastSeek' = <<position>>
                        /\ IF ~ReadOK(cur, position)
                           THEN /\ outcome' = Raise("ValueError")
                                /\ openCaps' = openCaps \cup {video_index}
                                /\ UNCHANGED extracted
                           ELSE IF ~timestamp_arg.isStr
                           THEN /\ outcome' = Raise("AttributeError")
                                /\ openCaps' = openCaps \cup {video_index}
                                /\ UNCHANGED extracted
                           ELSE \E written \in BOOLEAN :
                                IF written
                                THEN /\ extracted' = Append(extracted,
                                          File(1, position, 1,
                                               TimestampFilename(timestamp_arg.parts,
                                                                 args.format)))
                                     /\ openCaps' = openCaps \ {video_index}
                                     /\ outcome' = Return(TRUE)
                                ELSE /\ outcome' = Raise("cv2.error")
                                     /\ openCaps' = openCaps \cup {video_index}
                                     /\ UNCHANGED extracted
    /\ UNCHANGED <<configVars, mainVars, cur, timestamp_arg, interval_frames,
                   frame_index, loop_i>>

\* extract_by_interval up to its loop: open, the step from fps and interval.
ExtractByInterval ==
    /\ pc = "extract_by_interval"
    /\ IF cur.kind = "corrupt"
       THEN /\ outcome' = Raise("ValueError")
            /\ pc' = "returned"
            /\ UNCHANGED <<openCaps, openCount, loopVars>>
       ELSE /\ openCaps' = openCaps \cup {video_index}
            /\ openCount' = openCount + 1
            /\ interval_frames' = IntervalFrames(cur.fps, args.interval)
            /\ frame_position' = 0
            /\ frame_index' = 1
            /\ pc' = "interval_loop"
            /\ UNCHANGED <<loop_i, outcome>>
    /\ UNCHANGED <<configVars, mainVars, cur, timestamp_arg, extracted, lastSeek>>

\* One pass of extract_by_interval's while loop: seek and read; a failed read
\* leaves the loop, releases and returns the list; else the frame is written
\* under the next index and the position advances by the step.
IntervalIteration ==
    /\ pc = "interval_loop"
    /\ lastSeek' = <<frame_position>>
    /\ IF ~ReadOK(cur, frame_position)
       THEN /\ openCaps' = openCaps \ {video_index}
            /\ outcome' = Return(Len(extracted) > 0)
            /\ pc' = "returned"
            /\ UNCHANGED <<extracted, frame_position, frame_index>>
       ELSE \E written \in BOOLEAN :
            IF written
            THEN /\ extracted' = Append(extracted,
                      File(frame_index, frame_position, 999,
                           FormatFilename(frame_index, 999, args.format)))
                 /\ frame_position' = frame_position + interval_frames
                 /\ frame_index' = frame_index + 1
                 /\ UNCHANGED <<pc, outcome, openCaps>>
            ELSE /\ outcome' = Raise("cv2.error")
                 /\ pc' = "returned"
                 /\ UNCHANGED <<extracted, frame_position, frame_index, openCaps>>
    /\ UNCHANGED <<configVars, mainVars, cur, timestamp_arg, openCount,
                   interval_frames, loop_i>>

\* process_video's --interval branch up to its loop: get_video_info, the
\* estimated number of frames, the step derived from it (ZeroDivisionError
\* when the estimate is 0), then its own open.
CliInterval ==
    /\ pc = "cli_interval"
    /\ IF cur.kind = "corrupt"
       THEN /\ outcome' = Raise("ValueError")
            /\ pc' = "returned"
            /\ UNCHANGED <<openCaps, openCount, loopVars>>
       ELSE IF EstimatedFrames(cur, args.interval) = 0
       THEN /\ outcome' = Raise("ZeroDivisionError")
            /\ pc' = "returned"
            /\ openCount' = openCount + 1
            /\ UNCHANGED <<openCaps, loopVars>>
       ELSE /\ openCaps' = openCaps \cup {video_index}
            /\ openCount' = openCount + 2
            /\ interval_frames' = CliIntervalFrames(cur, args.interval)
            /\ frame_position' = 0
            /\ frame_index' = 1
            /\ pc' = "cli_interval_loop"
            /\ UNCHANGED <<loop_i, outcome>>
    /\ UNCHANGED <<configVars, mainVars, cur, timestamp_arg, extracted, lastSeek>>

\* One pass of process_video's while loop, the same steps as the class's.
CliIntervalIteration ==
    /\ pc = "cli_interval_loop"
    /\ lastSeek' = <<frame_position>>
    /\ IF ~ReadOK(cur, frame_position)
       THEN /\ openCaps' = openCaps \ {video_index}
            /\ outcome' = Return(Len(extracted) > 0)
            /\ pc' = "returned"
            /\ UNCHANGED <<extracted, frame_position, frame_index>>
       ELSE \E written \in BOOLEAN :
            IF written
            THEN /\ extracted' = Append(extracted,
                      File(frame_index, frame_position, 999,
                           FormatFilename(frame_index, 999, args.format)))
                 /\ frame_position' = frame_position + interval_frames
                 /\ frame_index' = frame_index + 1
                 /\ UNCHANGED <<pc, outcome, openCaps>>
            ELSE /\ outcome' = Raise("cv2.error")
                 /\ pc' = "returned"
                 /\ UNCHANGED <<extracted, frame_position, frame_index, openCaps>>
    /\ UNCHANGED <<configVars, mainVars, cur, timestamp_arg, openCount,
                   interval_frames, loop_i>>

\* extract_by_count up to its loop: count < 1 raises before the open.
ExtractByCount ==
    /\ pc = "extract_by_count"
    /\ IF args.count < 1 \/ cur.kind = "corrupt"
       THEN /\ outcome' = Raise("ValueError")
            /\ pc' = "returned"
            /\ UNCHANGED <<openCaps, openCount, loopVars>>
       ELSE /\ openCaps' = openCaps \cup {video_index}
            /\ openCount' = openCount + 1
            /\ interval_frames' = CountInterval(cur.frame_count, args.count)
            /\ loop_i' = 0
            /\ pc' = "count_loop"
            /\ UNCHANGED <<frame_position, frame_index, outcome>>
    /\ UNCHANGED <<configVars, mainVars, cur, timestamp_arg, extracted, lastSeek>>

\* One pass of extract_by_count's for loop: seek to the clamped position and
\* read; a decoded frame is written under index i + 1, a failed read skipped.
CountIteration ==
    /\ pc = "count_loop"
    /\ loop_i < args.count
    /\ LET position == CountFramePosition(loop_i, interval_frames, cur.frame_count)
       IN  /\ frame_position' = position
           /\ lastSeek' = <<position>>
           /\ IF ~ReadOK(cur, position)
              THEN /\ loop_i' = loop_i + 1
                   /\ UNCHANGED <<extracted, pc, outcome>>
              ELSE \E written \in BOOLEAN :
                   IF written
                   THEN /\ extracted' = Append(extracted,
                             File(loop_i + 1, position, args.count,
                                  FormatFilename(loop_i + 1, args.count, args.format)))
                        /\ loop_i' = loop_i + 1
                        /\ UNCHANGED <<pc, outcome>>
                   ELSE /\ outcome' = Raise("cv2.error")
                        /\ pc' = "returned"
                        /\ UNCHANGED <<extracted, loop_i>>
    /\ UNCHANGED <<configVars, mainVars, cur, timestamp_arg, openCaps, openCount,
                   interval_frames, frame_index>>

\* extract_by_count after its loop: release and return the list.
CountDone ==
    /\ pc = "count_loop"
    /\ loop_i >= args.count
    /\ openCaps' = openCaps \ {video_index}
    /\ outcome' = Return(Len(extracted) > 0)
    /\ pc' = "returned"
    /\ UNCHANGED <<configVars, mainVars, cur, timestamp_arg, openCount, loopVars,
                   extracted, lastSeek>>

Next ==
    \/ ParseArgs
    \/ CheckMissing
    \/ ProcessVideo
    \/ ProcessVideoReturn
    \/ MainExit
    \/ LibCall
    \/ GetVideoInfo
    \/ ExtractAtTimestamp
    \/ ExtractByInterval
    \/ IntervalIteration
    \/ CliInterval
    \/ CliIntervalIteration
    \/ ExtractByCount
    \/ CountIteration
    \/ CountDone

Spec == Init /\ [][Next]_vars

\* The program runs to its end: its one thread takes its next step.
FairSpec == Spec /\ WF_vars(Next)

\* ------------------------------------------------------------- properties

Range(seq) == { seq[k] : k \in 1..Len(seq) }

\* The number of decimal digits of n >= 0 (up to four).
NumDigits(n) == IF n < 10 THEN 1 ELSE IF n < 100 THEN 2 ELSE IF n < 1000 THEN 3 ELSE 4

\* The command line asks for no extraction at all: --interval 0 or --count 0
\* without --info.
NothingToRun ==
    /\ ~args.info
    /\ \/ args.mode = "interval" /\ args.interval = 0
       \/ args.mode = "count" /\ args.count = 0

\* extract_by_count was called for the current video.
CountCalled ==
    /\ ~args.info
    /\ args.mode = "count"
    /\ driver = "lib" \/ args.count # 0
    /\ cur.kind \in {"ok", "corrupt"}

\* C1: for a batch whose videos all exist, main exits with 0 exactly when
\* every video was processed successfully and with 1 otherwise, where a video
\* whose operation ran and raised no error is processed successfully.
ExitZeroIffAllProcessed ==
    (pc = "exit" /\ exitCode # 2 /\ missing = {}) =>
        /\ exitCode \in {0, 1}
        /\ exitCode = 0 <=>
             (~NothingToRun /\ \A k \in 1..Len(results) : results[k].err = "")

\* C2: when a video of the batch does not exist, the run ends with status 1,
\* the missing video is listed, and every existing video was processed.
MissingVideoOthersProcessed ==
    (pc = "exit" /\ exitCode # 2 /\ missing # {}) =>
        /\ exitCode = 1
        /\ listed = missing
        /\ \A k \in (1..nvideos) \ missing : k \in Range(invoked)

\* C3: whatever fails for one video, main goes on: when it exits (past the
\* argument parsing), process_video was invoked exactly once per input video,
\* in input order, and every failure is a False of that video's result.
EveryVideoInvokedOnce ==
    (pc = "exit" /\ exitCode # 2) =>
        /\ invoked = [k \in 1..nvideos |-> k]
        /\ Len(results) = nvideos
        /\ \A k \in 1..nvideos : results[k].err # "" => ~results[k].ok

\* C4: the command line in timestamp mode, with a time at which the video has
\* a frame, writes exactly one file, read from position floor(seconds * fps),
\* and the video counts as processed successfully.
CliTimestampWritesOneFile ==
    (/\ driver = "cli"
     /\ pc = "returned"
     /\ ~args.info
     /\ args.mode = "timestamp"
     /\ cur.kind = "ok"
     /\ timestamp_arg.seconds * cur.fps < cur.readable) =>
        /\ outcome = Return(TRUE)
        /\ Len(extracted) = 1
        /\ extracted[1].position = timestamp_arg.seconds * cur.fps

\* C5: extract_by_count with count >= 1 on a video of T frames writes at most
\* count files, the file of loop index i (file index i + 1) read from position
\* min(i * max(1, T // count), T - 1); T = 300 and count = 5 give the five
\* files of positions 0, 60, 120, 180, 240; count < 1 raises ValueError
\* before the video is opened.
CountStrategyPositions ==
    (CountCalled /\ pc \in {"count_loop", "returned"}) =>
        /\ Len(extracted) <= Max(args.count, 0)
        /\ \A k \in 1..Len(extracted) :
             LET i == extracted[k].index - 1
                 T == cur.frame_count
             IN  /\ i \in 0..(args.count - 1)
                 /\ k > 1 => extracted[k - 1].index < extracted[k].index
                 /\ extracted[k].position =
                      Min(i * Max(1, T \div args.count), T - 1)
        /\ (pc = "returned" /\ outcome.kind = "return"
              /\ cur = ExampleVideo /\ args.count = 5) =>
                 /\ [k \in 1..Len(extracted) |-> extracted[k].position]
                      = <<0, 60, 120, 180, 240>>
                 /\ [k \in 1..Len(extracted) |-> extracted[k].index]
                      = <<1, 2, 3, 4, 5>>
        /\ args.count < 1 =>
             /\ pc = "returned"
             /\ outcome = Raise("ValueError")
             /\ openCount = 0
             /\ extracted = <<>>

\* C5, reached: the example has run, five files written from the 300-frame video.
CountStrategyWitness ==
    /\ CountCalled
    /\ pc = "returned"
    /\ cur = ExampleVideo
    /\ args.count = 5
    /\ Len(extracted) = 5

\* C6: for an interval > 0, both interval loops (the class's and the command
\* line's) step by max(1, floor(fps * interval)), read the positions 0, step,
\* 2 * step, ... and write the files 1, 2, 3, ... of them, and stop exactly at
\* the first position whose read fails.
IntervalStepFromFps ==
    (/\ args.interval > 0
     /\ args.mode = "interval"
     /\ ~args.info
     /\ \/ pc \in {"interval_loop", "cli_interval_loop"}
        \/ pc = "returned" /\ outcome.kind = "return" /\ cur.kind = "ok") =>
        LET step == Max(1, (cur.fps * args.interval) \div 2)
        IN  /\ interval_frames = step
            /\ \A k \in 1..Len(extracted) :
                 /\ extracted[k].index = k
                 /\ extracted[k].position = (k - 1) * step
                 /\ extracted[k].position < cur.readable
            /\ frame_position = Len(extracted) * step
            /\ pc = "returned" => frame_position >= cur.readable

\* The digits of a numbered file name, between "frame_" and the extension.
FieldOf(name) == SubSeq(name, 2, Len(name) - 1)

\* What holds of every numbered file name, whatever the example.
PaddedName(e) ==
    /\ Len(e.name) >= 3
    /\ e.name[1] = "frame_"
    /\ e.name[Len(e.name)] = (IF args.format = "png" THEN ".png" ELSE ".jpg")
    /\ Len(FieldOf(e.name)) = Max(NumDigits(e.total), NumDigits(e.index))
    /\ \A j \in 1..Len(FieldOf(e.name)) : FieldOf(e.name)[j] \in Range(DigitChars)
    /\ ToNumber(FieldOf(e.name)) = e.index

\* C7, as amended: a numbered file is named "frame_", the index padded with
\* zeros to the number of digits of the expected total, and the extension of
\* the format; index 7 of 999 is frame_007.jpg and index 7 of 10 is
\* frame_07.jpg.
FilenamePadding ==
    args.mode # "timestamp" =>
        \A k \in 1..Len(extracted) :
            LET e == extracted[k]
            IN  /\ PaddedName(e)
                /\ (e.index = 7 /\ e.total = 999 /\ args.format = "jpg") =>
                     e.name = <<"frame_", "0", "0", "7", ".jpg">>
                /\ (e.index = 7 /\ e.total = 10 /\ args.format = "jpg") =>
                     e.name = <<"frame_", "0", "7", ".jpg">>

\* C7, as stated: the same, with index 7 of 10 named frame_7.jpg.
FilenamePaddingAsStated ==
    args.mode # "timestamp" =>
        \A k \in 1..Len(extracted) :
            LET e == extracted[k]
            IN  /\ PaddedName(e)
                /\ (e.index = 7 /\ e.total = 999 /\ args.format = "jpg") =>
                     e.name = <<"frame_", "0", "0", "7", ".jpg">>
                /\ (e.index = 7 /\ e.total = 10 /\ args.format = "jpg") =>
                     e.name = <<"frame_", "7", ".jpg">>

\* C7, reached: file 7 of an expected 10 has been written as a jpg.
FilenamePaddingWitness ==
    /\ args.mode = "count"
    /\ args.format = "jpg"
    /\ \E k \in 1..Len(extracted) : extracted[k].index = 7 /\ extracted[k].total = 10

\* C8: every decoder context opened for a video is released when the
\* operation on the video ends, on every way out of it, so none is open when
\* the next video starts or the run ends.
DecoderAlwaysReleased ==
    pc \in {"returned", "loop", "exit"} => openCaps = {}

\* C9: every position passed to the decoder's seek lies in
\* [0, frame_count - 1], in every strategy and for every video.
SeekWithinRange ==
    lastSeek # <<>> => (0 <= lastSeek[1] /\ lastSeek[1] <= cur.frame_count - 1)

InIntervalLoop == pc \in {"interval_loop", "cli_interval_loop"}

\* C10: with a decoder that fails every read at or past the frame count, the
\* interval loops end for every interval value: the step is at least 1, the
\* position grows with every pass, and the loop is left.
IntervalLoopTerminates ==
    /\ [](InIntervalLoop => interval_frames >= 1)
    /\ [][(InIntervalLoop /\ InIntervalLoop') => frame_position' > frame_position]_vars
    /\ (InIntervalLoop ~> ~InIntervalLoop)

\* C10, reached: the class's loop has written two files of a video for an
\* interval that is zero or negative.
IntervalLoopWitness ==
    /\ pc = "interval_loop"
    /\ args.interval <= 0
    /\ Len(extracted) >= 2

====
